---- MODULE Spec2Model ----
(***************************************************************************)
(* gardenrelay.py: BLE control of the two relays of "ESP32 Garden".        *)
(* One run of main_async(args) against one peripheral whose characteristic *)
(* holds one byte.  read_bits and write_bits are modelled step by step     *)
(* (connect, is_connected check, GATT transfer, exit of the `async with`   *)
(* block) so that the lifetime of the connection is visible.               *)
(***************************************************************************)
EXTENDS Integers, Sequences, FiniteSets, TLC

\* ---------------------------------------------------------------- bounds

\* largest --retries value explored (retries ranges over 0..MaxRetries)
MaxRetries == 2

\* longest list BleakScanner.discover returns
MaxScan == 2

\* largest byte the characteristic holds at the start of a run of main_async
MaxDevByte == 4

\* a byte: the largest value bytes([x]) accepts and data[0] can be
ByteMax == 255

\* ------------------------------------------------------------- constants

DEFAULT_NAME == "ESP32 Garden"

\* Python's None for the string-valued options (--r1, --r2), and for last_err
None == "None"

\* an absent address: `if not address` treats None and "" alike
NoAddress == ""

\* Optional[int]: <<>> is None, <<v>> is the integer v
NoBits == <<>>

\* the names a nearby device may advertise, the second differing only in case
AdvertisedNames == {DEFAULT_NAME, "esp32 garden"}

\* the addresses of the devices a scan may report
ScanAddresses == {"AA:01", "AA:02"}

\* the address given with --mac
MacAddress == "AA:FF"

\* --------------------------------------------------------------- helpers

\* x & 0x03 on a non-negative integer
Mask2_Wide(x) ==
    x % 8

Mask2(x) ==
    x % 4

\* bytes([bits]): one byte; a value outside 0..255 raises ValueError
Payload(bits) ==
    IF bits \in 0..ByteMax THEN <<bits>> ELSE <<>>

\* (bits & ~0x01) | b  and  (bits & ~0x02) | b
SetBit0(bits, on) ==
    (bits - (bits % 2)) + (IF on THEN 1 ELSE 0)

SetBit1(bits, on) ==
    (bits - 2 * ((bits \div 2) % 2)) + (IF on THEN 2 ELSE 0)

compose_bits_IgnoreCurrent(current, r1, r2, set_bits) ==
    IF set_bits # NoBits
    THEN Mask2(set_bits[1])
    ELSE Mask2(SetBit1(SetBit0(0, r1 = "on"), r2 = "on"))

compose_bits(current, r1, r2, set_bits) ==
    IF set_bits # NoBits
    THEN Mask2(set_bits[1])
    ELSE LET b0 == Mask2(current)
             b1 == IF r1 # None THEN SetBit0(b0, r1 = "on") ELSE b0
             b2 == IF r2 # None THEN SetBit1(b1, r2 = "on") ELSE b1
         IN  Mask2(b2)

RECURSIVE FirstMatchFrom(_, _, _)
FirstMatchFrom(name, devices, i) ==
    IF i > Len(devices) THEN NoAddress
    ELSE IF devices[i].name = name THEN devices[i].address
    ELSE FirstMatchFrom(name, devices, i + 1)

find_address_by_name_AnyDevice(name, devices) ==
    IF devices = <<>> THEN NoAddress ELSE devices[1].address

find_address_by_name(name, devices) ==
    FirstMatchFrom(name, devices, 1)

\* ----------------------------------------------------------------- state

VARIABLES
    args,       \* the parsed command line (argparse.Namespace)
    dev,        \* the byte the peripheral's characteristic holds
    pc,         \* position in main_async
    scanned,    \* the list discover() returned, while find_address_by_name runs
    address,    \* main_async's address
    current,    \* main_async's current
    target,     \* main_async's target
    attempt,    \* main_async's loop variable
    last_err,   \* main_async's last_err
    rc,         \* what main_async returned (<<>> until it returns)
    call,       \* the running read_bits / write_bits call
    ret,        \* what the finished call returned or raised
    conn,       \* number of open BleakClient connections
    n_scans,    \* history: calls of BleakScanner.discover
    n_reads,    \* history: calls of read_bits
    n_writes,   \* history: calls of write_bits
    wire,       \* history: payloads handed to write_gatt_char, with the attempt
    rf_read,    \* history: outcome of the read-first read
    results,    \* history: outcome of each iteration of the retry loop
    path        \* history: the exit main_async took

vars == <<args, dev, pc, scanned, address, current, target, attempt, last_err,
          rc, call, ret, conn, n_scans, n_reads, n_writes, wire, rf_read,
          results, path>>

main_vars == <<pc, scanned, address, current, target, attempt, last_err, rc,
               n_scans, rf_read, results, path>>

\* ------------------------------------------------------- calls and results

NoRet == [kind |-> "none", val |-> 0, err |-> None]

NoCall == [fn |-> "none", step |-> "none", bits |-> 0, data |-> <<>>, pending |-> NoRet]

Value(v) == [kind |-> "value", val |-> v, err |-> None]

Raise(e) == [kind |-> "raise", val |-> 0, err |-> e]

\* read_bits(address, timeout) up to the `async with`
Enter_read_bits ==
    [NoCall EXCEPT !.fn = "read_bits", !.step = "connect"]

\* write_bits(address, bits, timeout) up to the `async with`: bits &= 0x03
Enter_write_bits(bits) ==
    [NoCall EXCEPT !.fn = "write_bits", !.step = "connect", !.bits = Mask2(bits)]

\* ------------------------------------------------- read_bits / write_bits

io_history == <<n_reads, n_writes>>

\* `async with BleakClient(address, timeout=timeout) as client`: __aenter__
\* connects, or raises and leaves nothing open
IoConnect ==
    /\ call.step = "connect"
    /\ \/ /\ conn' = conn + 1
          /\ call' = [call EXCEPT !.step = "check"]
          /\ ret' = ret
       \/ /\ conn' = conn
          /\ call' = NoCall
          /\ ret' = Raise("connect error")
    /\ UNCHANGED <<args, dev, wire, io_history, main_vars>>

\* `if not await client.is_connected(): raise BleakError("Failed to connect")`
IoCheck ==
    /\ call.step = "check"
    /\ \/ call' = [call EXCEPT !.step = "xfer"]
       \/ call' = [call EXCEPT !.step = "exit",
                               !.pending = Raise("Failed to connect")]
    /\ UNCHANGED <<args, dev, conn, ret, wire, io_history, main_vars>>

\* read_bits: `data = await client.read_gatt_char(CHAR_UUID)`
IoGattRead ==
    /\ call.fn = "read_bits"
    /\ call.step = "xfer"
    /\ \/ \E data \in {<<>>, <<dev>>} :
             call' = [call EXCEPT !.step = "data", !.data = data]
       \/ call' = [call EXCEPT !.step = "exit", !.pending = Raise("read error")]
    /\ UNCHANGED <<args, dev, conn, ret, wire, io_history, main_vars>>

\* read_bits: empty data raises, else `bits = data[0] & 0x03; return bits`
IoReadResult ==
    /\ call.fn = "read_bits"
    /\ call.step = "data"
    /\ call' = [call EXCEPT
                  !.step = "exit",
                  !.pending = IF call.data = <<>>
                              THEN Raise("Empty read")
                              ELSE Value(Mask2(call.data[1]))]
    /\ UNCHANGED <<args, dev, conn, ret, wire, io_history, main_vars>>

\* write_bits: `await client.write_gatt_char(CHAR_UUID, bytes([bits]), response=False)`
IoGattWrite ==
    /\ call.fn = "write_bits"
    /\ call.step = "xfer"
    /\ \/ /\ Payload(call.bits) # <<>>
          /\ wire' = Append(wire, [attempt |-> n_writes, payload |-> Payload(call.bits)])
          /\ dev' = Payload(call.bits)[1]
          /\ call' = [call EXCEPT !.step = "exit", !.pending = Value(0)]
       \/ /\ call' = [call EXCEPT
                        !.step = "exit",
                        !.pending = IF Payload(call.bits) = <<>>
                                    THEN Raise("ValueError")
                                    ELSE Raise("write error")]
          /\ UNCHANGED <<wire, dev>>
    /\ UNCHANGED <<args, conn, ret, io_history, main_vars>>

IoExit_LeakOnRaise ==
    /\ call.step = "exit"
    /\ conn' = IF call.pending.kind = "raise" THEN conn ELSE conn - 1
    /\ ret' = call.pending
    /\ call' = NoCall
    /\ UNCHANGED <<args, dev, wire, io_history, main_vars>>

\* __aexit__ of the `async with` block: disconnect, then return or re-raise
IoExit ==
    /\ call.step = "exit"
    /\ conn' = conn - 1
    /\ ret' = call.pending
    /\ call' = NoCall
    /\ UNCHANGED <<args, dev, wire, io_history, main_vars>>

\* ------------------------------------------------------------- main_async

io_vars == <<call, ret, conn, n_reads, n_writes, wire, dev>>

\* `return rc`
Return(code, how) ==
    /\ rc' = <<code>>
    /\ path' = how
    /\ pc' = "done"

\* an exception leaves main_async: asyncio.run re-raises it
Propagate ==
    /\ rc' = rc
    /\ path' = "raised"
    /\ pc' = "done"

\* `address = args.mac; if not address: address = await find_address_by_name(...)`
MainStart ==
    /\ pc = "start"
    /\ address' = args.mac
    /\ pc' = IF args.mac = NoAddress THEN "scan" ELSE "decide"
    /\ UNCHANGED <<args, scanned, current, target, attempt, last_err, rc,
                   n_scans, rf_read, results, path, io_vars>>

\* the device lists a scan may return
Devices == [name : AdvertisedNames, address : ScanAddresses]

DeviceLists == UNION {[1..n -> Devices] : n \in 0..MaxScan}

\* find_address_by_name: `await BleakScanner.discover(timeout=timeout)`
MainDiscover ==
    /\ pc = "scan"
    /\ n_scans' = n_scans + 1
    /\ \/ /\ \E devices \in DeviceLists : scanned' = devices
          /\ pc' = "find"
          /\ UNCHANGED <<rc, path>>
       \/ /\ Propagate
          /\ scanned' = scanned
    /\ UNCHANGED <<args, address, current, target, attempt, last_err,
                   rf_read, results, io_vars>>

\* find_address_by_name's loop and return; `if not address: return 1`
MainFound ==
    /\ pc = "find"
    /\ address' = find_address_by_name(args.name, scanned)
    /\ scanned' = <<>>
    /\ IF address' = NoAddress
       THEN Return(1, "not_found")
       ELSE pc' = "decide" /\ UNCHANGED <<rc, path>>
    /\ UNCHANGED <<args, current, target, attempt, last_err, n_scans,
                   rf_read, results, io_vars>>

\* `args.read and args.set_bits is None and args.r1 is None and args.r2 is None`
IsReadOnly(a) ==
    a.read /\ a.set_bits = NoBits /\ a.r1 = None /\ a.r2 = None

\* "Decide operation"; `current = 0; if args.read_first: ... read_bits(...)`
MainDecide ==
    /\ pc = "decide"
    /\ IF IsReadOnly(args)
       THEN /\ call' = Enter_read_bits
            /\ n_reads' = n_reads + 1
            /\ pc' = "read_only"
            /\ current' = current
       ELSE /\ current' = 0
            /\ IF args.read_first
               THEN /\ call' = Enter_read_bits
                    /\ n_reads' = n_reads + 1
                    /\ pc' = "read_first"
               ELSE /\ pc' = "compose"
                    /\ UNCHANGED <<call, n_reads>>
    /\ UNCHANGED <<args, scanned, address, target, attempt, last_err, rc,
                   n_scans, rf_read, results, path, ret, conn, n_writes, wire, dev>>

MainReadOnlyReturn_Retry ==
    /\ pc = "read_only"
    /\ ret.kind # "none"
    /\ ret' = NoRet
    /\ IF ret.kind = "value"
       THEN Return(0, "read_only") /\ UNCHANGED <<call, n_reads>>
       ELSE /\ call' = Enter_read_bits
            /\ n_reads' = n_reads + 1
            /\ UNCHANGED <<pc, rc, path>>
    /\ UNCHANGED <<args, scanned, address, current, target, attempt, last_err,
                   n_scans, rf_read, results, conn, n_writes, wire, dev>>

\* `await read_bits(address, args.conn_timeout); return 0`
MainReadOnlyReturn ==
    /\ pc = "read_only"
    /\ ret.kind # "none"
    /\ ret' = NoRet
    /\ IF ret.kind = "value" THEN Return(0, "read_only") ELSE Propagate
    /\ UNCHANGED <<args, scanned, address, current, target, attempt, last_err,
                   n_scans, rf_read, results, call, conn, n_reads, n_writes,
                   wire, dev>>

\* `try: current = await read_bits(...) except Exception: current = 0`
MainReadFirstReturn ==
    /\ pc = "read_first"
    /\ ret.kind # "none"
    /\ ret' = NoRet
    /\ current' = IF ret.kind = "value" THEN ret.val ELSE 0
    /\ rf_read' = IF ret.kind = "value" THEN "ok" ELSE "failed"
    /\ pc' = "compose"
    /\ UNCHANGED <<args, scanned, address, target, attempt, last_err, rc,
                   n_scans, results, path, call, conn, n_reads, n_writes,
                   wire, dev>>

NoChange_AnyRun(a, cur, tgt) ==
    tgt = cur

\* `args.read_first and target == current`
NoChange(a, cur, tgt) ==
    a.read_first /\ tgt = cur

\* `target = compose_bits(...)`, the no-op exit, `last_err = None` and the
\* start of `for attempt in range(1, args.retries + 1)`
MainCompose ==
    /\ pc = "compose"
    /\ target' = compose_bits(current, args.r1, args.r2, args.set_bits)
    /\ IF NoChange(args, current, target')
       THEN /\ Return(0, "noop")
            /\ UNCHANGED <<last_err, attempt>>
       ELSE /\ last_err' = None
            /\ attempt' = 1
            /\ pc' = "loop"
            /\ UNCHANGED <<rc, path>>
    /\ UNCHANGED <<args, scanned, address, current, n_scans, rf_read, results,
                   io_vars>>

InRange_OneMore(a, n) ==
    a <= n + 1

\* `attempt in range(1, args.retries + 1)`, attempt counting up from 1
InRange(a, n) ==
    a <= n

\* the head of the retry loop: the next write_bits call, or
\* "Giving up after N attempts" and `return 1`
MainLoop ==
    /\ pc = "loop"
    /\ IF InRange(attempt, args.retries)
       THEN /\ call' = Enter_write_bits(target)
            /\ n_writes' = n_writes + 1
            /\ pc' = "write"
            /\ UNCHANGED <<rc, path>>
       ELSE /\ Return(1, "gave_up")
            /\ UNCHANGED <<call, n_writes>>
    /\ UNCHANGED <<args, scanned, address, current, target, attempt, last_err,
                   n_scans, rf_read, results, ret, conn, n_reads, wire, dev>>

\* after `await write_bits(...)`: the read-back, `return 0`, or the except clause
MainWriteReturn ==
    /\ pc = "write"
    /\ ret.kind # "none"
    /\ ret' = NoRet
    /\ IF ret.kind = "value"
       THEN IF args.read_back
            THEN /\ call' = Enter_read_bits
                 /\ n_reads' = n_reads + 1
                 /\ pc' = "read_back"
                 /\ UNCHANGED <<rc, path, results, last_err>>
            ELSE /\ Return(0, "written")
                 /\ results' = Append(results, "ok")
                 /\ UNCHANGED <<call, n_reads, last_err>>
       ELSE /\ last_err' = ret.err
            /\ results' = Append(results, "write failed")
            /\ pc' = "sleep"
            /\ UNCHANGED <<rc, path, call, n_reads>>
    /\ UNCHANGED <<args, scanned, address, current, target, attempt, n_scans,
                   rf_read, conn, n_writes, wire, dev>>

\* after `await read_bits(...)` of --read-back: `return 0`, or the except clause
MainReadBackReturn ==
    /\ pc = "read_back"
    /\ ret.kind # "none"
    /\ ret' = NoRet
    /\ IF ret.kind = "value"
       THEN /\ Return(0, "written")
            /\ results' = Append(results, "ok")
            /\ last_err' = last_err
       ELSE /\ last_err' = ret.err
            /\ results' = Append(results, "read-back failed")
            /\ pc' = "sleep"
            /\ UNCHANGED <<rc, path>>
    /\ UNCHANGED <<args, scanned, address, current, target, attempt, n_scans,
                   rf_read, call, conn, n_reads, n_writes, wire, dev>>

\* `await asyncio.sleep(args.backoff)` and the next value of attempt
MainSleep ==
    /\ pc = "sleep"
    /\ attempt' = attempt + 1
    /\ pc' = "loop"
    /\ UNCHANGED <<args, scanned, address, current, target, last_err, rc,
                   n_scans, rf_read, results, path, io_vars>>

\* ---------------------------------------------------------- specification

\* what build_parser's parser can produce, --retries within the bound
Args ==
    [mac        : {NoAddress, MacAddress},
     name       : {DEFAULT_NAME},
     read       : BOOLEAN,
     set_bits   : {NoBits} \cup {<<b>> : b \in 0..3},
     r1         : {"on", "off", None},
     r2         : {"on", "off", None},
     read_first : BOOLEAN,
     read_back  : BOOLEAN,
     retries    : 0..MaxRetries]

InitLocals ==
    /\ scanned = <<>>
    /\ address = NoAddress
    /\ current = 0
    /\ attempt = 0
    /\ last_err = None
    /\ rc = <<>>
    /\ ret = NoRet
    /\ conn = 0
    /\ n_scans = 0
    /\ wire = <<>>
    /\ rf_read = "none"
    /\ results = <<>>
    /\ path = "none"

Init ==
    /\ args \in Args
    /\ dev \in 0..MaxDevByte
    /\ pc = "start"
    /\ target = 0
    /\ call = NoCall
    /\ n_reads = 0
    /\ n_writes = 0
    /\ InitLocals

Next ==
    \/ MainStart
    \/ MainDiscover
    \/ MainFound
    \/ MainDecide
    \/ MainReadOnlyReturn
    \/ MainReadFirstReturn
    \/ MainCompose
    \/ MainLoop
    \/ MainWriteReturn
    \/ MainReadBackReturn
    \/ MainSleep
    \/ IoConnect
    \/ IoCheck
    \/ IoGattRead
    \/ IoReadResult
    \/ IoGattWrite
    \/ IoExit

Spec == Init /\ [][Next]_vars

\* read_bits and write_bits called on their own: any byte in the
\* characteristic for a read, any bitmask 0..255 for a write (kept in target)
DefaultArgs ==
    [mac |-> MacAddress, name |-> DEFAULT_NAME, read |-> FALSE,
     set_bits |-> NoBits, r1 |-> None, r2 |-> None, read_first |-> FALSE,
     read_back |-> FALSE, retries |-> 1]

InitIO ==
    /\ args = DefaultArgs
    /\ pc = "direct"
    /\ \/ /\ dev \in 0..ByteMax
          /\ target = 0
          /\ call = Enter_read_bits
          /\ n_reads = 1
          /\ n_writes = 0
       \/ /\ dev \in 0..3
          /\ target \in 0..ByteMax
          /\ call = Enter_write_bits(target)
          /\ n_reads = 0
          /\ n_writes = 1
    /\ InitLocals

NextIO ==
    \/ IoConnect
    \/ IoCheck
    \/ IoGattRead
    \/ IoReadResult
    \/ IoGattWrite
    \/ IoExit

SpecIO == InitIO /\ [][NextIO]_vars

TypeOK ==
    /\ args \in Args \cup {DefaultArgs}
    /\ dev \in 0..ByteMax
    /\ pc \in {"start", "scan", "find", "decide", "read_only", "read_first",
               "compose", "loop", "write", "read_back", "sleep", "done",
               "direct"}
    /\ address \in {NoAddress, MacAddress} \cup ScanAddresses
    /\ current \in 0..3
    /\ target \in 0..ByteMax
    /\ rc \in {<<>>, <<0>>, <<1>>}
    /\ conn \in 0..1
    /\ call.fn \in {"none", "read_bits", "write_bits"}
    /\ ret.kind \in {"none", "value", "raise"}
    /\ path \in {"none", "not_found", "read_only", "noop", "written",
                 "gave_up", "raised"}

\* ------------------------------------------------------------- properties

Bit0(x) == x % 2

Bit1(x) == (x \div 2) % 2

LowTwoBits(x) == Bit0(x) + 2 * Bit1(x)

\* main_async has assigned target
Composed ==
    \/ pc \in {"loop", "write", "read_back", "sleep"}
    \/ path \in {"noop", "written", "gave_up"}

\* the invocation asks for a relay change
ChangeRequested ==
    args.set_bits # NoBits \/ args.r1 # None \/ args.r2 # None

\* C1: once target is composed, it equals set_bits when set_bits is given;
\* otherwise its bit0 is the r1 override (on=1, off=0) or bit0 of current, and
\* its bit1 is the r2 override or bit1 of current.
C1_ComposeBits ==
    Composed =>
        /\ target \in 0..3
        /\ IF args.set_bits # NoBits
           THEN target = args.set_bits[1]
           ELSE /\ Bit0(target) = CASE args.r1 = "on"  -> 1
                                    [] args.r1 = "off" -> 0
                                    [] OTHER           -> Bit0(current)
                /\ Bit1(target) = CASE args.r2 = "on"  -> 1
                                    [] args.r2 = "off" -> 0
                                    [] OTHER           -> Bit1(current)

\* current=3, r1=off, r2 unspecified composes to 2
C1_Witness ==
    /\ Composed
    /\ args.set_bits = NoBits /\ args.r1 = "off" /\ args.r2 = None
    /\ current = 3 /\ target = 2

\* C2 as stated: at most retries write attempts, giving up returns 1, and once
\* a write attempt has succeeded no further write attempt is made and the run
\* returns 0.
C2_Original ==
    /\ n_writes <= args.retries
    /\ path = "gave_up" => rc = <<1>>
    /\ \A i \in DOMAIN wire : n_writes = wire[i].attempt
    /\ (wire # <<>> /\ pc = "done") => rc = <<0>>

\* C2 amended: an attempt is one iteration of the retry loop, the write
\* followed (with --read-back) by the read-back.  At most retries attempts are
\* made; the run gives up with 1 only after retries attempts that all failed;
\* it returns 0 at the first attempt that succeeds and makes no attempt after
\* it; an attempt whose write succeeded and whose read-back failed is a failed
\* attempt and is followed by a new write.
C2_RetryLoop ==
    /\ n_writes <= args.retries
    /\ Len(results) <= n_writes /\ n_writes <= Len(results) + 1
    /\ path = "gave_up" =>
          /\ rc = <<1>>
          /\ Len(results) = args.retries
          /\ \A i \in DOMAIN results : results[i] # "ok"
    /\ path = "written" =>
          /\ rc = <<0>>
          /\ results # <<>> /\ results[Len(results)] = "ok"
    /\ \A i \in DOMAIN results :
          /\ results[i] = "ok" =>
                i = Len(results) /\ n_writes = i /\ pc = "done" /\ rc = <<0>>
          /\ results[i] = "ok" =>
                /\ \E k \in DOMAIN wire : wire[k].attempt = i
                /\ args.read_back => n_reads >= 1
          /\ results[i] = "read-back failed" =>
                /\ args.read_back
                /\ \E k \in DOMAIN wire : wire[k].attempt = i
          /\ results[i] = "write failed" =>
                \A k \in DOMAIN wire : wire[k].attempt # i
    /\ (pc = "done" /\ Composed /\ path # "noop") => path \in {"written", "gave_up"}

\* a write that succeeded, a read-back that failed, a second write, success
C2_Witness ==
    /\ path = "written"
    /\ results = <<"read-back failed", "ok">>
    /\ Len(wire) = 2

\* C3: the no-op exit returns 0 with no write and is taken exactly when
\* read_first is set and target equals current; otherwise the run is in the
\* retry loop or has left through it.
C3_NoOpGuard ==
    /\ path = "noop" =>
          /\ rc = <<0>> /\ pc = "done"
          /\ args.read_first /\ target = current
          /\ n_writes = 0 /\ wire = <<>>
    /\ Composed =>
          IF args.read_first /\ target = current
          THEN path = "noop"
          ELSE /\ path # "noop"
               /\ \/ pc \in {"loop", "write", "read_back", "sleep"}
                  \/ path \in {"written", "gave_up"}

\* read_first, current=2 read from the device, r2=on: nothing to write
C3_Witness ==
    /\ path = "noop"
    /\ rf_read = "ok" /\ current = 2
    /\ args.r2 = "on" /\ args.r1 = None /\ args.set_bits = NoBits
    /\ n_writes = 0

\* C4 as stated: after a failed read-first read the run does not end by that
\* failure, current is 0, target is composed from 0 and the write proceeds
\* (the no-op exit is not taken); with r1=on and r2 unspecified target is 1.
C4_ReadFirstFailure ==
    rf_read = "failed" =>
        /\ current = 0
        /\ path # "raised"
        /\ Composed =>
              /\ target = compose_bits(0, args.r1, args.r2, args.set_bits)
              /\ path # "noop"
              /\ (args.set_bits = NoBits /\ args.r1 = "on" /\ args.r2 = None)
                    => target = 1

\* C5: at most one connection is open; none is open outside a read_bits or
\* write_bits call (so none when a call has returned or raised, during the
\* retry delay, or when main_async has returned); a connection is open only
\* between the connect and the exit of the `async with` block.
C5_ScopedConnection ==
    /\ conn \in {0, 1}
    /\ call.fn = "none" => conn = 0
    /\ ret.kind # "none" => conn = 0
    /\ pc \in {"start", "scan", "find", "decide", "compose", "loop", "sleep",
               "done"} => (conn = 0 /\ call.fn = "none")
    /\ call.step = "connect" => conn = 0
    /\ call.step \in {"check", "xfer", "data", "exit"} => conn = 1

\* the retry delay after a failed is_connected check: the connection that was
\* open is closed
C5_Witness ==
    /\ pc = "sleep"
    /\ last_err = "Failed to connect"
    /\ conn = 0

\* a list has a device advertising the name
HasMatch(name, devices) ==
    \E i \in DOMAIN devices : devices[i].name = name

\* C6: with --mac no scan is made and that address is used; otherwise the
\* address of the first scanned device whose name equals the requested name is
\* used; with no such device the run returns 1 and never connects, reads or
\* writes.
C6_Resolution ==
    /\ [](/\ args.mac # NoAddress => (n_scans = 0 /\ address \in {NoAddress, args.mac})
          /\ (args.mac # NoAddress /\ pc # "start") => address = args.mac
          /\ path = "not_found" =>
                /\ rc = <<1>> /\ pc = "done"
                /\ n_reads = 0 /\ n_writes = 0 /\ wire = <<>>
                /\ conn = 0 /\ call = NoCall
          /\ address = NoAddress => (call.fn = "none" /\ n_reads = 0 /\ n_writes = 0))
    /\ [][pc = "find" =>
            IF HasMatch(args.name, scanned)
            THEN /\ \E i \in DOMAIN scanned :
                       /\ scanned[i].name = args.name
                       /\ \A j \in 1..(i - 1) : scanned[j].name # args.name
                       /\ address' = scanned[i].address
                 /\ pc' = "decide"
            ELSE /\ rc' = <<1>>
                 /\ path' = "not_found"
                 /\ pc' = "done"]_vars

\* the scan resolved the address and the run goes on to decide the operation
C6_Witness ==
    /\ args.mac = NoAddress
    /\ n_scans = 1
    /\ address = "AA:02"
    /\ pc = "decide"

\* C7: a read-only invocation makes one read_bits call at most, exactly one
\* once the device is resolved and the run has ended, never writes, and
\* returns 0 when the read succeeds.
C7_ReadOnly ==
    (args.read /\ ~ChangeRequested) =>
        /\ n_reads <= 1
        /\ n_writes = 0 /\ wire = <<>>
        /\ path \notin {"noop", "written", "gave_up"}
        /\ path = "read_only" => (rc = <<0>> /\ n_reads = 1)
        /\ (pc = "done" /\ n_reads = 1) =>
              \/ path = "read_only" /\ rc = <<0>>
              \/ path = "raised" /\ rc = <<>>
        /\ (pc = "done" /\ address # NoAddress) => n_reads = 1

\* the read failed and the run ended without a second read
C7_Witness ==
    /\ args.read /\ ~ChangeRequested
    /\ pc = "done" /\ path = "raised"
    /\ n_reads = 1

\* C8: write_bits sends one byte, the input's low two bits; read_bits returns
\* the low two bits of the byte read, and raises on an empty read.
C8_LowTwoBits ==
    /\ Len(wire) <= n_writes
    /\ \A i \in DOMAIN wire :
          /\ Len(wire[i].payload) = 1
          /\ wire[i].payload[1] = LowTwoBits(target)
          /\ wire[i].payload[1] \in 0..3
    /\ (n_writes = 1 /\ ret.kind = "value") => (Len(wire) = 1 /\ dev = LowTwoBits(target))
    /\ call.fn = "read_bits" =>
          /\ call.pending.kind = "value" =>
                /\ call.data # <<>>
                /\ call.pending.val = LowTwoBits(call.data[1])
          /\ (call.step = "exit" /\ call.data = <<>>) => call.pending.kind = "raise"
    /\ (n_reads = 1 /\ ret.kind = "value") =>
          (ret.val = LowTwoBits(dev) /\ ret.val \in 0..3)

\* write_bits(255) has sent the single byte 3
C8_Witness ==
    /\ target = ByteMax
    /\ ret.kind = "value"
    /\ wire = <<[attempt |-> 1, payload |-> <<3>>]>>

\* C9 as stated: the no-op exit is taken only after a successful read that
\* showed the device to hold target, and a run whose read-first read failed
\* returns 0 only after writing target.
C9_NoOpObserved ==
    /\ path = "noop" => (rf_read = "ok" /\ LowTwoBits(dev) = target)
    /\ (rf_read = "failed" /\ rc = <<0>>) =>
          \E k \in DOMAIN wire : wire[k].payload = <<target>>

\* C10 as stated: write_bits is called, and a payload sent, only when set_bits,
\* r1 or r2 was given.
C10_WriteOnlyOnRequest ==
    (n_writes > 0 \/ wire # <<>>) => ChangeRequested

====
